---- MODULE Spec2Model ----
(***************************************************************************)
(* The two storage adapters of the auth service, RedisDatabaseAdapter      *)
(* (src/unnamed/part_000) and DatabaseAdapter (src/src/api/routes/         *)
(* Routes.ts), over one Redis key space.                                   *)
(*                                                                         *)
(* Strings that the code concatenates or matches (prefixes, keys, physical *)
(* keys) are sequences of one-character strings.  A JavaScript value is a  *)
(* record [t, s, f]: t its type, s the text of a primitive, f the set of   *)
(* <<name, atom>> members of an object or array, an atom being a           *)
(* <<type, text>> pair.  A payload is the JSON text kept in Redis, as its  *)
(* sequence of <<kind, text>> tokens.                                      *)
(***************************************************************************)
EXTENDS Integers, Sequences, FiniteSets, TLC

\* ------------------------------------------------------------------ bounds
\* Number of adapter (or foreign-client) calls in one behaviour.
MaxCalls == 3

\* ------------------------------------------------------- inputs of the calls
PrefixU == <<"u">>
PrefixU1 == <<"u", "_", "1">>
Prefixes == {PrefixU, PrefixU1}

Key1 == <<"1">>
KeyU1 == <<"u", "1">>
Key1U1 == <<"1", "_", "1">>

\* the logical keys the calls address: (u, 1_1) and (u_1, 1) join to the same
\* text with the delimiter, u followed by 1 is the key u1, and u leads u_1
Pairs == {<<PrefixU, Key1>>, <<PrefixU, Key1U1>>, <<PrefixU1, Key1>>, <<PrefixU1, KeyU1>>}

\* ---------------------------------------------------------- JavaScript values
Prim(t, s) == [t |-> t, s |-> s, f |-> {}]
Obj(members) == [t |-> "obj", s |-> "", f |-> members]
Arr(members) == [t |-> "arr", s |-> "", f |-> members]

JSNull == Prim("null", "null")
JSZero == Prim("num", "0")
JSFalse == Prim("bool", "false")
JSEmptyString == Prim("str", "")
JSEmptyArray == Arr({})
ObjAnn == Obj({<<"name", <<"str", "Ann">>>>})
ObjBob == Obj({<<"name", <<"str", "Bob">>>>})
ObjAge == Obj({<<"age", <<"num", "30">>>>})

\* values handed to set, partials handed to update
Values == {ObjAnn, JSEmptyArray, JSZero, JSFalse, JSEmptyString, JSNull}
Partials == {ObjAge, ObjBob}

\* member names in the order JSON.stringify emits them
FieldOrder == <<"0", "1", "2", "name", "age">>

\* `!value` of JavaScript is FALSE exactly for these
Truthy(v) ==
    CASE v.t \in {"obj", "arr"} -> TRUE
      [] v.t = "num" -> v.s # "0"
      [] v.t = "str" -> v.s # ""
      [] v.t = "bool" -> v.s = "true"
      [] OTHER -> FALSE

\* Object.assign(target, source): own members of source overwrite the
\* same-named members of target, the others stay; a primitive target is
\* left as it is.
ObjectAssign(target, source) ==
    IF target.t \in {"obj", "arr"}
    THEN [target EXCEPT !.f = source.f \cup
             {m \in target.f : \A n \in source.f : n[1] # m[1]}]
    ELSE target

\* ------------------------------------------------------------------ the codec
Punct(c) == <<"punct", c>>

AtomToken(a) ==
    CASE a[1] = "num" -> <<"num", a[2]>>
      [] a[1] = "str" -> <<"str", a[2]>>
      [] OTHER -> <<"lit", a[2]>>

TokenAtom(tok) ==
    CASE tok[1] = "num" -> <<"num", tok[2]>>
      [] tok[1] = "str" -> <<"str", tok[2]>>
      [] tok[2] = "null" -> <<"null", "null">>
      [] OTHER -> <<"bool", tok[2]>>

IsValueToken(tok) ==
    \/ tok[1] \in {"num", "str"}
    \/ tok[1] = "lit" /\ tok[2] \in {"null", "true", "false"}

RECURSIVE StringifyMembers(_, _, _)
StringifyMembers(members, i, isObj) ==
    IF i > Len(FieldOrder) THEN <<>>
    ELSE LET here == {m \in members : m[1] = FieldOrder[i]}
             rest == StringifyMembers(members, i + 1, isObj)
         IN  IF here = {} THEN rest
             ELSE LET m == CHOOSE m \in here : TRUE
                      one == IF isObj
                             THEN <<<<"str", m[1]>>, Punct(":"), AtomToken(m[2])>>
                             ELSE <<AtomToken(m[2])>>
                  IN  IF rest = <<>> THEN one ELSE one \o <<Punct(",")>> \o rest

\* JSON.stringify(value)
JSONStringify(v) ==
    CASE v.t = "obj" -> <<Punct("{")>> \o StringifyMembers(v.f, 1, TRUE) \o <<Punct("}")>>
      [] v.t = "arr" -> <<Punct("[")>> \o StringifyMembers(v.f, 1, FALSE) \o <<Punct("]")>>
      [] OTHER -> <<AtomToken(<<v.t, v.s>>)>>

ParseOk(v) == [ok |-> TRUE, v |-> v]
SyntaxError == [ok |-> FALSE, v |-> JSNull]

\* the text between the braces: name : atom { , name : atom }
ObjectBodyOk(toks) ==
    LET n == Len(toks)
    IN  /\ n % 4 = 3
        /\ \A i \in 1..n :
              CASE i % 4 = 1 -> toks[i][1] = "str"
                [] i % 4 = 2 -> toks[i] = Punct(":")
                [] i % 4 = 3 -> IsValueToken(toks[i])
                [] OTHER -> toks[i] = Punct(",")

\* the text between the brackets: atom { , atom }
ArrayBodyOk(toks) ==
    LET n == Len(toks)
    IN  /\ n % 2 = 1
        /\ \A i \in 1..n :
              IF i % 2 = 1 THEN IsValueToken(toks[i]) ELSE toks[i] = Punct(",")

IndexName(i) == CASE i = 0 -> "0" [] i = 1 -> "1" [] OTHER -> "2"

\* JSON.parse(text): the value, or a SyntaxError thrown
JSONParse(toks) ==
    LET n == Len(toks)
        body == SubSeq(toks, 2, n - 1)
    IN  CASE n = 0 -> SyntaxError
          [] n = 1 -> IF IsValueToken(toks[1])
                      THEN LET a == TokenAtom(toks[1]) IN ParseOk(Prim(a[1], a[2]))
                      ELSE SyntaxError
          [] toks[1] = Punct("{") /\ toks[n] = Punct("}") ->
                IF n = 2 THEN ParseOk(Obj({}))
                ELSE IF ObjectBodyOk(body)
                THEN ParseOk(Obj({<<body[i][2], TokenAtom(body[i + 2])>> :
                                     i \in {j \in 1..Len(body) : j % 4 = 1}}))
                ELSE SyntaxError
          [] toks[1] = Punct("[") /\ toks[n] = Punct("]") ->
                IF n = 2 THEN ParseOk(Arr({}))
                ELSE IF ArrayBodyOk(body)
                THEN ParseOk(Arr({<<IndexName((i - 1) \div 2), TokenAtom(body[i])>> :
                                     i \in {j \in 1..Len(body) : j % 2 = 1}}))
                ELSE SyntaxError
          [] OTHER -> SyntaxError

\* ------------------------------------------------------------ the Redis store
\* The key space of the Redis server: physical key |-> payload, for the keys
\* that exist.
EmptyStore == [x \in {} |-> <<>>]

\* the reply `null` of GET for a key that does not exist
Nil == <<<<"nil", "">>>>

StoreRead(st, key) == IF key \in DOMAIN st THEN st[key] ELSE Nil

\* SET that keeps the payload of a key that exists (SET ... NX)
StoreWriteIfAbsent(st, key, payload) ==
    [x \in DOMAIN st \cup {key} |-> IF x \in DOMAIN st THEN st[x] ELSE payload]

StoreWrite(st, key, payload) ==
    [x \in DOMAIN st \cup {key} |-> IF x = key THEN payload ELSE st[x]]

StoreDelete(st, key) == [x \in DOMAIN st \ {key} |-> st[x]]

\* replies of the server to SET
WriteReplies == {"OK", "ERR"}

\* payloads another client of the same server may leave under a key
MalformedPayloads == {<<>>, <<Punct("{"), <<"str", "name">>>>}

\* ------------------------------------------------------------ call outcomes
\* A promise ends resolved (with a boolean b, a value v or a list l),
\* rejected (with the store's error), or it never settles: an exception
\* thrown inside a Redis callback leaves the executor's resolve and reject
\* uncalled and goes to the process as an uncaught exception.
NoList == <<>>
ResolveBool(b) == [kind |-> "resolve", is |-> "bool", b |-> b, v |-> JSNull, l |-> NoList]
ResolveValue(v) == [kind |-> "resolve", is |-> "value", b |-> FALSE, v |-> v, l |-> NoList]
ResolveList(l) == [kind |-> "resolve", is |-> "list", b |-> FALSE, v |-> JSNull, l |-> l]
Reject == [kind |-> "reject", is |-> "store", b |-> FALSE, v |-> JSNull, l |-> NoList]
Pending == [kind |-> "pending", is |-> "none", b |-> FALSE, v |-> JSNull, l |-> NoList]

\* what a call did: its outcome, the store it leaves, whether it issued a
\* SET, the physical keys it addressed, and whether it left an uncaught
\* exception or an unhandled rejection behind
Effect(out, st, wrote, touched, uncaught) ==
    [out |-> out, store |-> st, wrote |-> wrote, touched |-> touched,
     uncaught |-> uncaught]

\* ------------------------------------------------- promisified Redis commands
redisSet(st, key, value, reply) ==
    IF reply = "OK"
    THEN [out |-> ResolveBool(TRUE), store |-> StoreWrite(st, key, JSONStringify(value))]
    ELSE [out |-> Reject, store |-> st]

\* `result = ''` replaces only an undefined reply; a null reply reaches
\* JSON.parse, which reads it as the text null.
redisGet(st, key) ==
    LET result == StoreRead(st, key)
        text == IF result = Nil THEN <<<<"lit", "null">>>> ELSE result
        parsedObject == JSONParse(text)
    IN  IF parsedObject.ok THEN ResolveValue(parsedObject.v) ELSE Pending

redisDelete(st, key) ==
    [out |-> ResolveBool(key \in DOMAIN st), store |-> StoreDelete(st, key)]

\* ---------------------------------------------------------- the Key Namespacer
getPrefixedKey(prefix, key) == prefix \o <<"_">> \o key

Adapters == {"RedisDatabaseAdapter", "DatabaseAdapter"}

\* the physical key set and remove write to or delete
WriteKey(a, prefix, key) ==
    IF a = "RedisDatabaseAdapter" THEN getPrefixedKey(prefix, key) ELSE prefix \o key

\* the physical key get and update read
ReadKey(a, prefix, key) ==
    IF a = "RedisDatabaseAdapter" THEN getPrefixedKey(prefix, key) ELSE key

\* --------------------------------------------------------- adapter operations
get(a, st, prefix, key) == redisGet(st, ReadKey(a, prefix, key))

set(a, st, prefix, key, obj, reply) ==
    LET found == get(a, st, prefix, key)
        w == redisSet(st, WriteKey(a, prefix, key), obj, reply)
        both == {ReadKey(a, prefix, key), WriteKey(a, prefix, key)}
    IN  IF found.kind = "pending"
        THEN Effect(Pending, st, FALSE, {ReadKey(a, prefix, key)}, TRUE)
        ELSE IF ~Truthy(found.v)
        THEN IF a = "RedisDatabaseAdapter"
             THEN \* await this.redisSet(...); return true
                  IF w.out.kind = "reject"
                  THEN Effect(Reject, w.store, TRUE, both, FALSE)
                  ELSE Effect(ResolveBool(TRUE), w.store, TRUE, both, FALSE)
             ELSE \* this.redisSet(...) is not awaited; return true
                  Effect(ResolveBool(TRUE), w.store, TRUE, both, w.out.kind = "reject")
        ELSE Effect(ResolveBool(FALSE), st, FALSE, {ReadKey(a, prefix, key)}, FALSE)

\* DatabaseAdapter only
update(a, st, prefix, key, upd, reply) ==
    LET found == get(a, st, prefix, key)
        object == ObjectAssign(found.v, upd)
        w == redisSet(st, key, object, reply)
        s == set(a, st, prefix, key, upd, reply)
    IN  IF found.kind = "pending"
        THEN Effect(Pending, st, FALSE, {ReadKey(a, prefix, key)}, TRUE)
        ELSE IF Truthy(found.v)
        THEN Effect(ResolveValue(object), w.store, TRUE, {ReadKey(a, prefix, key), key},
                    w.out.kind = "reject")
        ELSE IF s.out.kind = "resolve"
        THEN Effect(ResolveValue(upd), s.store, s.wrote, s.touched, s.uncaught)
        ELSE s

remove(a, st, prefix, key) ==
    LET d == redisDelete(st, WriteKey(a, prefix, key))
    IN  Effect(d.out, d.store, FALSE, {WriteKey(a, prefix, key)}, FALSE)

\* KEYS pattern, for a pattern without glob metacharacters and with a
\* trailing `*`: the keys that start with the pattern
StartsWith(key, pattern) ==
    /\ Len(pattern) <= Len(key)
    /\ SubSeq(key, 1, Len(pattern)) = pattern

\* the orders in which KEYS may list the keys of a set
Enumerations(S) ==
    {results \in [1..Cardinality(S) -> S] :
        \A i, j \in 1..Cardinality(S) : i # j => results[i] # results[j]}

\* new this.modelConstructor(object)
modelConstructor(object) == [model |-> TRUE, of |-> object]
\* an element that was pushed as decoded, without the constructor
Plain(object) == [model |-> FALSE, of |-> object]

RECURSIVE Join(_)
Join(chars) == IF chars = <<>> THEN "" ELSE Head(chars) \o Join(Tail(chars))

\* the tokens of a key name read as JSON text: digits are a number, anything
\* else in these key names is no JSON
KeyNameText(key) ==
    IF key # <<>> /\ \A i \in 1..Len(key) : key[i] \in {"0", "1", "2"}
    THEN <<<<"num", Join(key)>>>>
    ELSE <<<<"bad", Join(key)>>>>

\* the loop of RedisDatabaseAdapter's redisGetAll: one GET per listed key
RECURSIVE FetchEach(_, _, _)
FetchEach(st, results, i) ==
    IF i > Len(results) THEN ResolveList(<<>>)
    ELSE LET object == redisGet(st, results[i])
             rest == FetchEach(st, results, i + 1)
         IN  IF object.kind = "pending" THEN Pending
             ELSE IF rest.kind = "pending" THEN Pending
             ELSE ResolveList(<<modelConstructor(object.v)>> \o rest.l)

\* the map of DatabaseAdapter's redisGetAll: JSON.parse of each listed KEY NAME
RECURSIVE ParseEach(_, _)
ParseEach(results, i) ==
    IF i > Len(results) THEN ResolveList(<<>>)
    ELSE LET parsed == JSONParse(KeyNameText(results[i]))
             rest == ParseEach(results, i + 1)
         IN  IF ~parsed.ok \/ rest.kind = "pending" THEN Pending
             ELSE ResolveList(<<Plain(parsed.v)>> \o rest.l)

\* the keys KEYS replies with: `${pattern}*` in RedisDatabaseAdapter, the bare
\* pattern in DatabaseAdapter
Matched(a, st, pattern) ==
    IF a = "RedisDatabaseAdapter"
    THEN {key \in DOMAIN st : StartsWith(key, pattern)}
    ELSE {key \in DOMAIN st : key = pattern}

redisGetAll(a, st, results) ==
    IF a = "RedisDatabaseAdapter" THEN FetchEach(st, results, 1)
    ELSE ParseEach(results, 1)

getAll(a, st, prefix, results) ==
    LET out == redisGetAll(a, st, results)
    IN  Effect(out, st, FALSE, {results[i] : i \in 1..Len(results)},
               out.kind = "pending")

\* ---------------------------------------------------------------- the state
VARIABLES
    adapter,    \* which of the two adapter classes was constructed
    store,      \* the Redis key space
    last,       \* the last call: its arguments, outcome and the store before it
    calls,      \* number of calls made
    alive,      \* FALSE once the process died of an uncaught exception
    twin,       \* a DatabaseAdapter on a key space of its own, given the same calls
    tasks       \* the calls in flight, or finished, when calls overlap

vars == <<adapter, store, last, calls, alive, twin, tasks>>

NoKey == <<>>

NoCall ==
    [op |-> "none", prefix |-> NoKey, key |-> NoKey, arg |-> JSNull, reply |-> "none",
     out |-> Pending, pre |-> EmptyStore, wrote |-> FALSE, touched |-> {}]

NoTwin == [store |-> EmptyStore, out |-> Pending, alive |-> TRUE]

\* Calls that overlap run in slots.  A task is one call: its arguments, where
\* it stands (pc), whether its logical key was Present when it was made, what
\* its existence check read (found, and sawNil when the reply was null), the
\* keys KEYS listed (results) and the next one to
\* handle (i), the records built so far (list, gotNil when one was built from
\* a null reply), its outcome, the key it wrote and the rank of that write
\* among the writes (wkey, wstamp), its rank among the calls (order), and
\* whether the other slot's call was in flight when it started (over).
Slots == {"a", "b"}

Idle ==
    [op |-> "none", prefix |-> NoKey, key |-> NoKey, arg |-> JSNull, reply |-> "none",
     pc |-> "idle", present |-> FALSE, found |-> Pending, sawNil |-> FALSE, results |-> <<>>, i |-> 0,
     list |-> <<>>, gotNil |-> FALSE, out |-> Pending, wkey |-> NoKey, wstamp |-> 0,
     order |-> 0, over |-> FALSE]

Init ==
    /\ adapter \in Adapters
    /\ store = EmptyStore
    /\ last = NoCall
    /\ calls = 0
    /\ alive = TRUE
    /\ twin = NoTwin
    /\ tasks = [slot \in Slots |-> Idle]

\* one call run to completion: nothing else reaches the store in between
CallCore(op, prefix, key, arg, reply, e) ==
    /\ calls < MaxCalls
    /\ store' = e.store
    /\ last' = [op |-> op, prefix |-> prefix, key |-> key, arg |-> arg,
                reply |-> IF e.wrote THEN reply ELSE "none",
                out |-> e.out, pre |-> store, wrote |-> e.wrote,
                touched |-> e.touched]
    /\ calls' = calls + 1
    \* an uncaught exception or unhandled rejection ends the process unless a
    \* handler is installed
    /\ alive' \in (IF e.uncaught THEN BOOLEAN ELSE {TRUE})
    /\ UNCHANGED adapter

Call(op, prefix, key, arg, reply, e) ==
    /\ CallCore(op, prefix, key, arg, reply, e)
    /\ UNCHANGED <<twin, tasks>>

Set ==
    /\ alive
    /\ \E pr \in Pairs, obj \in Values, reply \in WriteReplies :
          Call("set", pr[1], pr[2], obj, reply,
               set(adapter, store, pr[1], pr[2], obj, reply))

Get ==
    /\ alive
    /\ \E pr \in Pairs :
          LET out == get(adapter, store, pr[1], pr[2])
          IN  Call("get", pr[1], pr[2], JSNull, "none",
                   Effect(out, store, FALSE, {ReadKey(adapter, pr[1], pr[2])},
                          out.kind = "pending"))

Update ==
    /\ alive
    /\ adapter = "DatabaseAdapter"
    /\ \E pr \in Pairs, upd \in Partials, reply \in WriteReplies :
          Call("update", pr[1], pr[2], upd, reply,
               update(adapter, store, pr[1], pr[2], upd, reply))

Remove ==
    /\ alive
    /\ \E pr \in Pairs :
          Call("remove", pr[1], pr[2], JSNull, "none",
               remove(adapter, store, pr[1], pr[2]))

GetAll ==
    /\ alive
    /\ \E prefix \in Prefixes :
          \E results \in Enumerations(Matched(adapter, store, prefix)) :
              Call("getAll", prefix, NoKey, JSNull, "none",
                   getAll(adapter, store, prefix, results))

\* another client of the same Redis server overwrites a key of the adapter
\* with text that is not JSON
ForeignWrite ==
    /\ alive
    /\ \E key \in DOMAIN store, payload \in MalformedPayloads :
          Call("foreign", NoKey, key, JSNull, "none",
               Effect(ResolveBool(TRUE), StoreWrite(store, key, payload), FALSE, {key},
                      FALSE))

Next == Set \/ Get \/ Update \/ Remove \/ GetAll \/ ForeignWrite

Spec == Init /\ [][Next]_vars

TypeOK ==
    /\ adapter \in Adapters
    /\ calls \in Nat
    /\ alive \in BOOLEAN
    /\ last.out.kind \in {"resolve", "reject", "pending"}

\* ------------------------------------------------------- vocabulary of the claims
\* A logical key is Present when the physical key that set writes exists.
Present(a, st, prefix, key) == WriteKey(a, prefix, key) \in DOMAIN st

\* every payload in the store is valid JSON
WellFormed(st) == \A x \in DOMAIN st : JSONParse(st[x]).ok

\* the record stored under a Present logical key
Stored(a, st, prefix, key) == JSONParse(st[WriteKey(a, prefix, key)]).v

\* get's "not found"
NotFound == ResolveValue(JSNull)

\* a decode failure delivered to the caller
DecodeError == [kind |-> "reject", is |-> "decode", b |-> FALSE, v |-> JSNull, l |-> NoList]

\* the record with partial's members and, for the names partial lacks, v's
ShallowMerge(v, partial) ==
    [t |-> v.t, s |-> v.s,
     f |-> {m \in v.f \cup partial.f :
              \/ m \in partial.f
              \/ ~\E n \in partial.f : n[1] = m[1]}]

LastPair == <<last.prefix, last.key>>

\* the last call found the store answering its SET, if it sent one
StoreAnswered == last.reply # "ERR"

\* C1: after set(prefix, key, value) has returned true (the store having
\* accepted the write and holding only valid JSON), get(prefix, key) returns
\* a record equal to value, in both adapters.
C1_GetAfterSetReturnsValue ==
    (/\ last.op = "set"
     /\ last.out = ResolveBool(TRUE)
     /\ StoreAnswered
     /\ WellFormed(last.pre))
    => get(adapter, store, last.prefix, last.key) = ResolveValue(last.arg)

\* C2: set on a Present logical key, whatever valid value it stores (objects,
\* arrays, 0, false, "", null), returns false, issues no write and leaves the
\* stored payload of the key unchanged.
C2_SetOnPresentIsNoOp ==
    (/\ last.op = "set"
     /\ Present(adapter, last.pre, last.prefix, last.key)
     /\ WellFormed(last.pre))
    => /\ last.out = ResolveBool(FALSE)
       /\ ~last.wrote
       /\ Present(adapter, store, last.prefix, last.key)
       /\ store[WriteKey(adapter, last.prefix, last.key)]
             = last.pre[WriteKey(adapter, last.prefix, last.key)]

\* C3: update(prefix, key, p) on a logical key that holds the object v returns
\* the shallow merge of p over v, and a following get(prefix, key) returns that
\* same merged record.
C3_UpdateOnPresentMerges ==
    (/\ last.op = "update"
     /\ Present(adapter, last.pre, last.prefix, last.key)
     /\ WellFormed(last.pre)
     /\ StoreAnswered
     /\ Stored(adapter, last.pre, last.prefix, last.key).t = "obj")
    => LET merged == ShallowMerge(Stored(adapter, last.pre, last.prefix, last.key),
                                  last.arg)
       IN  /\ last.out = ResolveValue(merged)
           /\ get(adapter, store, last.prefix, last.key) = ResolveValue(merged)

\* C4: update(prefix, key, partial) on an Absent logical key returns partial
\* unchanged, makes the key Present, and leaves the store and a following get
\* as set(prefix, key, partial) from the same store would.
C4_UpdateOnAbsentIsSet ==
    (/\ last.op = "update"
     /\ ~Present(adapter, last.pre, last.prefix, last.key)
     /\ WellFormed(last.pre)
     /\ StoreAnswered)
    => LET s == set(adapter, last.pre, last.prefix, last.key, last.arg, "OK")
       IN  /\ last.out = ResolveValue(last.arg)
           /\ Present(adapter, store, last.prefix, last.key)
           /\ store = s.store
           /\ get(adapter, store, last.prefix, last.key)
                 = get(adapter, s.store, last.prefix, last.key)

\* C5: remove on an Absent logical key returns false and changes nothing; on a
\* Present key it returns true, a following get reports not found and a second
\* remove returns false.
C5_RemoveReportsDeletion ==
    (last.op = "remove" /\ WellFormed(last.pre))
    => IF Present(adapter, last.pre, last.prefix, last.key)
       THEN /\ last.out = ResolveBool(TRUE)
            /\ get(adapter, store, last.prefix, last.key) = NotFound
            /\ remove(adapter, store, last.prefix, last.key).out = ResolveBool(FALSE)
       ELSE /\ last.out = ResolveBool(FALSE)
            /\ store = last.pre

\* the Present logical keys of a prefix
PresentPairs(a, st, prefix) ==
    {pr \in Pairs : pr[1] = prefix /\ Present(a, st, pr[1], pr[2])}

\* C6: getAll(p) returns exactly one record per Present logical key of prefix
\* p, each built from the value stored under that key, in any order, and no
\* record of another prefix (one that p leads included).
C6_GetAllExactlyPrefixScoped ==
    (last.op = "getAll" /\ WellFormed(last.pre))
    => LET expected == PresentPairs(adapter, last.pre, last.prefix)
       IN  /\ last.out.kind = "resolve"
           /\ Len(last.out.l) = Cardinality(expected)
           /\ \E pick \in [1..Len(last.out.l) -> expected] :
                 /\ \A i, j \in 1..Len(last.out.l) : i # j => pick[i] # pick[j]
                 /\ \A i \in 1..Len(last.out.l) :
                       last.out.l[i].of
                          = Stored(adapter, last.pre, pick[i][1], pick[i][2])

\* C7: a call on a logical key addresses one physical key, the same in set,
\* get, update and remove, and no call on a different logical key addresses
\* that physical key (the derivation is injective, delimiter inside the prefix
\* or key included).
C7_PhysicalKeyInjective ==
    (last.op \in {"set", "get", "update", "remove"})
    => /\ last.touched = {WriteKey(adapter, last.prefix, last.key)}
       /\ \A pr \in Pairs \ {LastPair} :
             /\ WriteKey(adapter, pr[1], pr[2]) \notin last.touched
             /\ ReadKey(adapter, pr[1], pr[2]) \notin last.touched

\* C8: get on a Present logical key whose payload is not valid JSON ends with
\* a DecodeError delivered to the caller (not "not found", not a promise that
\* never settles) and leaves the payload as it was.
C8_GetSurfacesDecodeError ==
    (/\ last.op = "get"
     /\ Present(adapter, last.pre, last.prefix, last.key)
     /\ ~JSONParse(last.pre[WriteKey(adapter, last.prefix, last.key)]).ok)
    => /\ last.out = DecodeError
       /\ store = last.pre

\* C9: when the store refuses the write of a set on an Absent logical key, set
\* fails with the store's error instead of returning true, and the key is
\* still Absent.
C9_SetFailsWhenWriteFails ==
    (/\ last.op = "set"
     /\ ~Present(adapter, last.pre, last.prefix, last.key)
     /\ last.reply = "ERR")
    => /\ last.out = Reject
       /\ ~Present(adapter, store, last.prefix, last.key)

\* C10: when a key listed for getAll(prefix) holds a payload that fails to
\* decode, the whole call ends with a DecodeError: no list is returned and
\* the promise does not stay pending.
C10_GetAllFailsFast ==
    (/\ last.op = "getAll"
     /\ \E x \in last.touched : ~JSONParse(last.pre[x]).ok)
    => last.out = DecodeError

\* C13: get reports "not found" exactly for an Absent logical key: on a
\* Present key it returns the stored record, a stored null or other falsy
\* primitive included, and that result is not the not-found result; on an
\* Absent key it returns not found (RedisDatabaseAdapter, valid payloads).
C13_NotFoundIffAbsent ==
    (/\ last.op = "get"
     /\ adapter = "RedisDatabaseAdapter"
     /\ WellFormed(last.pre))
    => IF Present(adapter, last.pre, last.prefix, last.key)
       THEN /\ last.out = ResolveValue(Stored(adapter, last.pre, last.prefix, last.key))
            /\ last.out # NotFound
       ELSE last.out = NotFound

\* C16: a set, update or remove on one logical key leaves every other logical
\* key as it was: Absent or Present as before, and get returning what it
\* returned before.
C16_LogicalKeysIsolated ==
    (last.op \in {"set", "update", "remove"} /\ WellFormed(last.pre))
    => \A pr \in Pairs \ {LastPair} :
          /\ Present(adapter, store, pr[1], pr[2])
                = Present(adapter, last.pre, pr[1], pr[2])
          /\ get(adapter, store, pr[1], pr[2])
                = get(adapter, last.pre, pr[1], pr[2])

\* ------------------------------------------- the two adapters side by side
\* A RedisDatabaseAdapter (store, last) and a DatabaseAdapter (twin), each on
\* an empty key space of its own, receive the same calls with the same
\* arguments and the same answers of the store to their writes.
InitTwin == Init /\ adapter = "RedisDatabaseAdapter"

TwinCall(op, prefix, key, arg, reply, e, d) ==
    /\ alive
    /\ twin.alive
    /\ CallCore(op, prefix, key, arg, reply, e)
    /\ \E survives \in (IF d.uncaught THEN BOOLEAN ELSE {TRUE}) :
          twin' = [store |-> d.store, out |-> d.out, alive |-> survives]
    /\ UNCHANGED tasks

TwinSet ==
    /\ adapter = "RedisDatabaseAdapter"
    /\ \E pr \in Pairs, obj \in Values, reply \in WriteReplies :
          TwinCall("set", pr[1], pr[2], obj, reply,
                   set("RedisDatabaseAdapter", store, pr[1], pr[2], obj, reply),
                   set("DatabaseAdapter", twin.store, pr[1], pr[2], obj, reply))

TwinGet ==
    /\ adapter = "RedisDatabaseAdapter"
    /\ \E pr \in Pairs :
          LET r == get("RedisDatabaseAdapter", store, pr[1], pr[2])
              d == get("DatabaseAdapter", twin.store, pr[1], pr[2])
          IN  TwinCall("get", pr[1], pr[2], JSNull, "none",
                       Effect(r, store, FALSE, {}, r.kind = "pending"),
                       Effect(d, twin.store, FALSE, {}, d.kind = "pending"))

TwinRemove ==
    /\ adapter = "RedisDatabaseAdapter"
    /\ \E pr \in Pairs :
          TwinCall("remove", pr[1], pr[2], JSNull, "none",
                   remove("RedisDatabaseAdapter", store, pr[1], pr[2]),
                   remove("DatabaseAdapter", twin.store, pr[1], pr[2]))

NextTwin == TwinSet \/ TwinGet \/ TwinRemove

SpecTwin == InitTwin /\ [][NextTwin]_vars

\* C14: for every sequence of set, get and remove calls from an empty store,
\* DatabaseAdapter and RedisDatabaseAdapter return the same result call by
\* call and leave every logical key in the same Absent/Present state with the
\* same stored value (the store having accepted the last write).
C14_AdaptersAgree ==
    (last.op \in {"set", "get", "remove"} /\ StoreAnswered)
    => /\ last.out = twin.out
       /\ \A pr \in Pairs :
             /\ Present("RedisDatabaseAdapter", store, pr[1], pr[2])
                   = Present("DatabaseAdapter", twin.store, pr[1], pr[2])
             /\ Present("RedisDatabaseAdapter", store, pr[1], pr[2])
                   => Stored("RedisDatabaseAdapter", store, pr[1], pr[2])
                         = Stored("DatabaseAdapter", twin.store, pr[1], pr[2])

\* ------------------------------------------------------- overlapping calls
\* One Redis connection carries every command: commands take effect in the
\* order they are issued, and a call issues its next command when the reply
\* to the previous one has come.  A step of a task is therefore one command
\* taking effect, with the reply handling that precedes its issue; steps of
\* different tasks interleave freely.
MaxStarts == 3

\* the logical keys and values of the overlapping calls
RacePairs == {<<PrefixU, Key1>>, <<PrefixU1, KeyU1>>}
RaceValues == {ObjAnn, ObjBob}

InFlight(t) == t.pc \notin {"idle", "done"}
Other(slot) == CHOOSE o \in Slots : o # slot

\* a new call takes the slot of no call in flight; of two such slots, the
\* one whose call is the older
Free(slot) ==
    /\ ~InFlight(tasks[slot])
    /\ InFlight(tasks[Other(slot)])
          \/ tasks[slot].order < tasks[Other(slot)].order
          \/ (tasks[slot].order = tasks[Other(slot)].order /\ slot = "a")

NextStamp ==
    1 + (CHOOSE n \in {tasks[o].wstamp : o \in Slots} :
            \A o \in Slots : tasks[o].wstamp <= n)

Task(op, prefix, key, arg) ==
    [Idle EXCEPT !.op = op, !.prefix = prefix, !.key = key, !.arg = arg]

Finished(t, out) == [t EXCEPT !.pc = "done", !.out = out]

\* a call is made: its first command takes effect
Begin(slot, t, st) ==
    /\ calls < MaxStarts
    /\ Free(slot)
    /\ tasks' = [tasks EXCEPT ![slot] =
                    [t EXCEPT !.order = calls + 1,
                              !.over = InFlight(tasks[Other(slot)])]]
    /\ calls' = calls + 1
    /\ store' = st
    /\ UNCHANGED <<adapter, last, alive, twin>>

\* a call in flight goes on: its next command takes effect
Continue(slot, t, st) ==
    /\ tasks' = [tasks EXCEPT ![slot] = t]
    /\ store' = st
    /\ UNCHANGED <<adapter, last, calls, alive, twin>>

\* set: `await this.get(prefix, key)`
StartSet ==
    /\ alive
    /\ \E slot \in Slots, pr \in RacePairs, obj \in RaceValues :
          LET found == get(adapter, store, pr[1], pr[2])
              t == [Task("set", pr[1], pr[2], obj) EXCEPT
                       !.present = Present(adapter, store, pr[1], pr[2]),
                       !.found = found,
                       !.sawNil = ReadKey(adapter, pr[1], pr[2]) \notin DOMAIN store]
          IN  Begin(slot,
                    IF found.kind = "pending" THEN Finished(t, Pending)
                    ELSE IF Truthy(found.v) THEN Finished(t, ResolveBool(FALSE))
                    ELSE [t EXCEPT !.pc = "write"],
                    store)

\* set: `this.redisSet(...)` (awaited in RedisDatabaseAdapter only), return true
SetWrite ==
    /\ alive
    /\ \E slot \in Slots, reply \in WriteReplies :
          LET t == tasks[slot]
              wkey == WriteKey(adapter, t.prefix, t.key)
              w == redisSet(store, wkey, t.arg, reply)
              out == IF adapter = "RedisDatabaseAdapter" /\ w.out.kind = "reject"
                     THEN Reject ELSE ResolveBool(TRUE)
          IN  /\ t.op = "set"
              /\ t.pc = "write"
              /\ Continue(slot,
                          [Finished(t, out) EXCEPT !.reply = reply, !.wkey = wkey,
                                                   !.wstamp = NextStamp],
                          w.store)

StartGet ==
    /\ alive
    /\ \E slot \in Slots, pr \in RacePairs :
          LET found == get(adapter, store, pr[1], pr[2])
              t == [Task("get", pr[1], pr[2], JSNull) EXCEPT
                       !.present = Present(adapter, store, pr[1], pr[2]),
                       !.found = found,
                       !.sawNil = ReadKey(adapter, pr[1], pr[2]) \notin DOMAIN store]
          IN  Begin(slot, Finished(t, found), store)

StartRemove ==
    /\ alive
    /\ \E slot \in Slots, pr \in RacePairs :
          LET e == remove(adapter, store, pr[1], pr[2])
          IN  Begin(slot, Finished(Task("remove", pr[1], pr[2], JSNull), e.out), e.store)

\* update: `const object = await this.get<T>(prefix, key)`
StartUpdate ==
    /\ alive
    /\ adapter = "DatabaseAdapter"
    /\ \E slot \in Slots, pr \in RacePairs, upd \in Partials :
          LET found == get(adapter, store, pr[1], pr[2])
              t == [Task("update", pr[1], pr[2], upd) EXCEPT
                       !.present = Present(adapter, store, pr[1], pr[2]),
                       !.found = found,
                       !.sawNil = ReadKey(adapter, pr[1], pr[2]) \notin DOMAIN store]
          IN  Begin(slot,
                    IF found.kind = "pending" THEN Finished(t, Pending)
                    ELSE IF Truthy(found.v) THEN [t EXCEPT !.pc = "merge"]
                    ELSE [t EXCEPT !.pc = "inner"],
                    store)

\* update that merges into the record the key holds when the write is made
UpdateMergeAtomic ==
    /\ alive
    /\ \E slot \in Slots, reply \in WriteReplies :
          LET t == tasks[slot]
              object == ObjectAssign(redisGet(store, t.key).v, t.arg)
              w == redisSet(store, t.key, object, reply)
          IN  /\ t.op = "update"
              /\ t.pc = "merge"
              /\ Continue(slot,
                          [Finished(t, ResolveValue(object)) EXCEPT
                               !.reply = reply, !.wkey = t.key, !.wstamp = NextStamp],
                          w.store)

\* update, object found: Object.assign, `this.redisSet(key, object)`, return
UpdateMerge ==
    /\ alive
    /\ \E slot \in Slots, reply \in WriteReplies :
          LET t == tasks[slot]
              object == ObjectAssign(t.found.v, t.arg)
              w == redisSet(store, t.key, object, reply)
          IN  /\ t.op = "update"
              /\ t.pc = "merge"
              /\ Continue(slot,
                          [Finished(t, ResolveValue(object)) EXCEPT
                               !.reply = reply, !.wkey = t.key, !.wstamp = NextStamp],
                          w.store)

\* update, nothing found: `await this.set(prefix, key, update)` reads again
UpdateInner ==
    /\ alive
    /\ \E slot \in Slots :
          LET t == tasks[slot]
              found == get(adapter, store, t.prefix, t.key)
          IN  /\ t.op = "update"
              /\ t.pc = "inner"
              /\ Continue(slot,
                          IF found.kind = "pending" THEN Finished(t, Pending)
                          ELSE IF Truthy(found.v) THEN Finished(t, ResolveValue(t.arg))
                          ELSE [t EXCEPT !.pc = "innerwrite"],
                          store)

\* update, nothing found: the write of the inner set, `return update as T`
UpdateInnerWrite ==
    /\ alive
    /\ \E slot \in Slots, reply \in WriteReplies :
          LET t == tasks[slot]
              wkey == WriteKey(adapter, t.prefix, t.key)
              w == redisSet(store, wkey, t.arg, reply)
          IN  /\ t.op = "update"
              /\ t.pc = "innerwrite"
              /\ Continue(slot,
                          [Finished(t, ResolveValue(t.arg)) EXCEPT
                               !.reply = reply, !.wkey = wkey, !.wstamp = NextStamp],
                          w.store)

\* getAll: KEYS takes effect; DatabaseAdapter finishes on its reply
StartGetAll ==
    /\ alive
    /\ \E slot \in Slots, prefix \in Prefixes :
          \E results \in Enumerations(Matched(adapter, store, prefix)) :
              LET t == [Task("getAll", prefix, NoKey, JSNull) EXCEPT
                           !.results = results, !.i = 1]
              IN  Begin(slot,
                        IF adapter = "DatabaseAdapter"
                        THEN Finished(t, redisGetAll(adapter, store, results))
                        ELSE IF results = <<>> THEN Finished(t, ResolveList(<<>>))
                        ELSE [t EXCEPT !.pc = "fetch"],
                        store)

\* getAll of RedisDatabaseAdapter: `await get(result)`, then the constructor
GetAllFetch ==
    /\ alive
    /\ \E slot \in Slots :
          LET t == tasks[slot]
              result == t.results[t.i]
              object == redisGet(store, result)
              u == [t EXCEPT !.list = Append(t.list, modelConstructor(object.v)),
                             !.gotNil = t.gotNil \/ result \notin DOMAIN store,
                             !.i = t.i + 1]
          IN  /\ t.op = "getAll"
              /\ t.pc = "fetch"
              /\ Continue(slot,
                          IF object.kind = "pending" THEN Finished(t, Pending)
                          ELSE IF t.i = Len(t.results)
                          THEN Finished(u, ResolveList(u.list))
                          ELSE u,
                          store)

\* KEYS 'u_1_*': the keys of one prefix only
KeysOfOnePrefix(st) == {key \in DOMAIN st : StartsWith(key, PrefixU1 \o <<"_">>)}

\* KEYS '*'
AllKeys(st) == DOMAIN st

\* clear: `this.redisClear()` issues KEYS '*' and clear returns at once
StartClear ==
    /\ alive
    /\ adapter = "RedisDatabaseAdapter"
    /\ \E slot \in Slots :
          \E results \in Enumerations(AllKeys(store)) :
              LET t == [Task("clear", NoKey, NoKey, JSNull) EXCEPT
                           !.results = results, !.i = 1]
              IN  Begin(slot,
                        IF results = <<>> THEN Finished(t, ResolveBool(TRUE))
                        ELSE [t EXCEPT !.pc = "delete"],
                        store)

\* redisClear: `await this.redisDelete(result)` for the next listed key
ClearDelete ==
    /\ alive
    /\ \E slot \in Slots :
          LET t == tasks[slot]
              d == redisDelete(store, t.results[t.i])
              u == [t EXCEPT !.i = t.i + 1]
          IN  /\ t.op = "clear"
              /\ t.pc = "delete"
              /\ Continue(slot,
                          IF t.i = Len(t.results) THEN Finished(u, ResolveBool(TRUE))
                          ELSE u,
                          d.store)

NextConc ==
    \/ StartSet \/ SetWrite \/ StartGet \/ StartRemove
    \/ StartUpdate \/ UpdateMerge \/ UpdateInner \/ UpdateInnerWrite
    \/ StartGetAll \/ GetAllFetch \/ StartClear \/ ClearDelete

SpecConc == Init /\ [][NextConc]_vars

\* the event loop runs the callback of every reply that has come
SpecConcFair == SpecConc /\ WF_vars(ClearDelete)

\* two finished set calls on one logical key, with different values, that both
\* found the key missing and both had their write accepted
SetRace(a, b) ==
    /\ a # b
    /\ tasks[a].op = "set" /\ tasks[b].op = "set"
    /\ tasks[a].pc = "done" /\ tasks[b].pc = "done"
    /\ tasks[a].prefix = tasks[b].prefix /\ tasks[a].key = tasks[b].key
    /\ tasks[a].arg # tasks[b].arg
    /\ ~tasks[a].present /\ ~tasks[b].present
    /\ tasks[a].sawNil /\ tasks[b].sawNil
    /\ tasks[a].reply = "OK" /\ tasks[b].reply = "OK"
    /\ tasks[a].wstamp < tasks[b].wstamp

\* C11: when two set calls with different values on the same Absent logical
\* key have both observed it absent and both written, both have returned true
\* and the value stored is the value of the later write; and such an
\* interleaving exists (C11_RaceReached).
C11_LaterSetWins ==
    \A a, b \in Slots :
        SetRace(a, b)
        => /\ tasks[a].out = ResolveBool(TRUE)
           /\ tasks[b].out = ResolveBool(TRUE)
           /\ Present(adapter, store, tasks[b].prefix, tasks[b].key)
           /\ Stored(adapter, store, tasks[b].prefix, tasks[b].key) = tasks[b].arg

\* both checks came before both writes: the second call was made while the
\* first was between its check and its write
C11_RaceReached ==
    \E a, b \in Slots :
        /\ SetRace(a, b)
        /\ tasks[a].order < tasks[b].order
        /\ tasks[b].over
        /\ tasks[a].out = ResolveBool(TRUE)
        /\ tasks[b].out = ResolveBool(TRUE)
        /\ Stored(adapter, store, tasks[b].prefix, tasks[b].key) = tasks[b].arg
        /\ Stored(adapter, store, tasks[b].prefix, tasks[b].key) # tasks[a].arg

\* clear was called in this slot, with no other call in flight then or now,
\* and none made after it
ClearAlone(s) ==
    /\ tasks[s].op = "clear"
    /\ ~tasks[s].over
    /\ ~InFlight(tasks[Other(s)])
    /\ tasks[Other(s)].order < tasks[s].order

\* every key of every prefix is Absent: the store is empty, get reports not
\* found and getAll returns the empty list, for every prefix
AllAbsent ==
    /\ store = EmptyStore
    /\ \A pr \in Pairs : get(adapter, store, pr[1], pr[2]) = NotFound
    /\ \A prefix \in Prefixes :
          \A results \in Enumerations(Matched(adapter, store, prefix)) :
              getAll(adapter, store, prefix, results).out = ResolveList(<<>>)

\* C12: once clear() has been called, and for as long as no other call runs
\* or is made, eventually every key of every prefix is Absent (AllAbsent),
\* the store answering the deletes and the event loop running the
\* callbacks of redisClear.
C12_ClearEmptiesStore ==
    \A s \in Slots :
        ClearAlone(s) ~> (AllAbsent \/ ~ClearAlone(s))

\* a clear that found keys of both prefixes has finished alone and the store
\* is empty
C12_BothPrefixesCleared ==
    \E s \in Slots :
        /\ ClearAlone(s)
        /\ tasks[s].pc = "done"
        /\ \E i, j \in 1..Len(tasks[s].results) :
              /\ tasks[s].results[i] = WriteKey(adapter, PrefixU, Key1)
              /\ tasks[s].results[j] = WriteKey(adapter, PrefixU1, KeyU1)
        /\ AllAbsent

\* the member names of a record
Names(v) == {m[1] : m \in v.f}

\* two finished update calls on one logical key, with partials that name
\* disjoint fields, that wrote the same physical key, b after a, the store
\* accepting both writes
UpdateRace(a, b) ==
    /\ a # b
    /\ tasks[a].op = "update" /\ tasks[b].op = "update"
    /\ tasks[a].pc = "done" /\ tasks[b].pc = "done"
    /\ tasks[a].prefix = tasks[b].prefix /\ tasks[a].key = tasks[b].key
    /\ Names(tasks[a].arg) \cap Names(tasks[b].arg) = {}
    /\ tasks[a].reply = "OK" /\ tasks[b].reply = "OK"
    /\ tasks[a].wkey = tasks[b].wkey
    /\ tasks[a].wstamp < tasks[b].wstamp

\* the later of two calls was made while the earlier was in flight
Overlapped(a, b) ==
    IF tasks[a].order < tasks[b].order THEN tasks[b].over ELSE tasks[a].over

C17_ReconstructorNeverGivenNull ==
    \A s \in Slots :
        tasks[s].op = "getAll"
        => /\ ~tasks[s].gotNil
           /\ \A i \in 1..Len(tasks[s].list) :
                 tasks[s].list[i] # modelConstructor(JSNull)

\* clear task c listed the physical key that call g addresses
Listed(c, g) ==
    \E i \in 1..Len(tasks[c].results) :
        tasks[c].results[i] = WriteKey(adapter, tasks[g].prefix, tasks[g].key)

\* C18: the call made next after clear() has returned, on a key that was
\* Present when clear() was called, observes the key as Absent: get reports
\* not found, set does not return false, and the value of a set that returned
\* true is the stored one.
C18_ClearedOnReturn ==
    \A c, g \in Slots :
        /\ tasks[c].op = "clear"
        /\ tasks[g].order = tasks[c].order + 1
        /\ tasks[g].order = calls
        /\ tasks[g].pc = "done"
        /\ Listed(c, g)
        => /\ tasks[g].op = "get" => tasks[g].out = NotFound
           /\ tasks[g].op = "set"
              => /\ tasks[g].out # ResolveBool(FALSE)
                 /\ tasks[g].out = ResolveBool(TRUE)
                    => Stored(adapter, store, tasks[g].prefix, tasks[g].key)
                         = tasks[g].arg

====
